---- MODULE Spec2Model ----
(***************************************************************************)
(* A model of the iColor library (src/src/lib.rs, src/src/utils.rs): the   *)
(* Color value (three u8 channels and an f32 alpha), its constructors, the *)
(* text recognizer Color::from, the renderers and the transforms.          *)
(*                                                                         *)
(* f32 values are modelled bit-exactly for finite numbers: a value is a    *)
(* record [s, m, e] standing for (-1)^s * m * 2^e, with m = 0 (a signed    *)
(* zero) or 2^23 <= m < 2^24, and every operation rounds to nearest, ties  *)
(* to even, as IEEE 754 binary32 does.  The exponent is not bounded: no    *)
(* value of the library's computations on the inputs drawn here leaves the *)
(* normal range of binary32.  NaN and the infinities are not modelled.     *)
(* Strings are sequences of one-character strings.                         *)
(***************************************************************************)
EXTENDS Integers, Sequences, FiniteSets, TLC

(***************************************************************************)
(* f32 arithmetic                                                          *)
(***************************************************************************)
P6  == 2^6
P12 == 2^12
P18 == 2^18
P23 == 2^23
P24 == 2^24

\* The one element of a one-element set.  An operator's parameter stands for
\* an expression and a bound variable for a value: the arithmetic below binds
\* its operands, Once({ ... : x \in {x0} }), to work on values.
Once(S) == CHOOSE v \in S : TRUE

RECURSIVE BitLen(_)
BitLen(n) == IF n = 0 THEN 0 ELSE 1 + Once({ BitLen(h) : h \in {n \div 2} })

F32(s, m, e) == [s |-> s, m |-> m, e |-> e]

FZero(s) == F32(s, 0, 0)

\* The f32 nearest (ties to even) to (-1)^s * (M + t) * 2^e, where 0 <= t < 1
\* and t > 0 iff sticky.  Callers pass sticky = TRUE only with M >= 2^26.
RoundF32(s, M0, e, sticky) ==
    Once({ IF M = 0 THEN FZero(s)
           ELSE IF nb <= 24
           THEN F32(s, M * 2^(24 - nb), e - (24 - nb))
           ELSE LET sh   == nb - 24
                    q    == M \div 2^sh
                    rem  == M % 2^sh
                    half == 2^(sh - 1)
                    up   == rem > half \/ (rem = half /\ (sticky \/ q % 2 = 1))
                    q1   == IF up THEN q + 1 ELSE q
                IN  IF q1 = P24 THEN F32(s, P23, e + sh + 1)
                                ELSE F32(s, q1, e + sh)
           : M \in {M0}, nb \in {BitLen(M0)} })

\* u8 as f32, u32 as f32 (n >= 0), and the f32 literals of the source
FromInt(n) == RoundF32(IF n < 0 THEN 1 ELSE 0, IF n < 0 THEN 0 - n ELSE n, 0, FALSE)

FNeg(x0) == Once({ F32(1 - x.s, x.m, x.e) : x \in {x0} })

FAbs(x0) == Once({ F32(0, x.m, x.e) : x \in {x0} })

\* |x| < |y|
MagLt(x, y) ==
    IF y.m = 0 THEN FALSE
    ELSE IF x.m = 0 THEN TRUE
    ELSE x.e < y.e \/ (x.e = y.e /\ x.m < y.m)

\* x == y on f32 (-0.0 == 0.0)
FEq(x0, y0) == \E x \in {x0}, y \in {y0} : (x.m = 0 /\ y.m = 0) \/ x = y

\* x < y on f32
FLt(x0, y0) ==
    \E x \in {x0}, y \in {y0} :
        IF x.m = 0 /\ y.m = 0 THEN FALSE
        ELSE IF x.s = 1 /\ y.s = 0 THEN TRUE
        ELSE IF x.s = 0 /\ y.s = 1 THEN FALSE
        ELSE IF x.s = 0 THEN MagLt(x, y) ELSE MagLt(y, x)

FLe(x0, y0) == \E x \in {x0}, y \in {y0} : FLt(x, y) \/ FEq(x, y)

\* x * y
FMul(x0, y0) ==
    Once({ LET s == (x.s + y.s) % 2
           IN  IF x.m = 0 \/ y.m = 0 THEN FZero(s)
               ELSE LET h1  == x.m \div P12
                        l1  == x.m % P12
                        h2  == y.m \div P12
                        l2  == y.m % P12
                        mid == h1 * l2 + l1 * h2
                        lo  == (mid % P12) * P12 + l1 * l2
                        hi  == h1 * h2 + mid \div P12 + lo \div P24
                        lo2 == lo % P24
                    IN  RoundF32(s, hi * P6 + lo2 \div P18, x.e + y.e + 18,
                                 lo2 % P18 # 0)
           : x \in {x0}, y \in {y0} })

\* |a| + |b| with sign s, for |a| >= |b| > 0
AddMag(s, a, b) ==
    LET d == a.e - b.e
    IN  Once({ RoundF32(s, t[1], t[2], t[3]) :
                 t \in { IF d <= 6 THEN <<a.m * 2^d + b.m, b.e, FALSE>>
                         ELSE IF d - 6 >= 24 THEN <<a.m * P6, a.e - 6, TRUE>>
                         ELSE <<a.m * P6 + b.m \div 2^(d - 6), a.e - 6,
                                b.m % 2^(d - 6) # 0>> } })

\* |a| - |b| with sign s, for |a| >= |b| > 0
SubMag(s, a, b) ==
    LET d == a.e - b.e
    IN  IF d <= 6 /\ a.m * 2^d = b.m THEN FZero(0)
        ELSE Once({ RoundF32(s, t[1], t[2], t[3]) :
                      t \in { IF d <= 6 THEN <<a.m * 2^d - b.m, b.e, FALSE>>
                              ELSE IF d - 6 >= 24 THEN <<a.m * P6 - 1, a.e - 6, TRUE>>
                              ELSE IF b.m % 2^(d - 6) # 0
                              THEN <<a.m * P6 - b.m \div 2^(d - 6) - 1, a.e - 6, TRUE>>
                              ELSE <<a.m * P6 - b.m \div 2^(d - 6), a.e - 6, FALSE>> } })

\* x + y
FAdd(x0, y0) ==
    Once({ IF x.m = 0 /\ y.m = 0 THEN FZero(IF x.s = 1 /\ y.s = 1 THEN 1 ELSE 0)
           ELSE IF y.m = 0 THEN x
           ELSE IF x.m = 0 THEN y
           ELSE LET big   == IF MagLt(x, y) THEN y ELSE x
                    small == IF MagLt(x, y) THEN x ELSE y
                IN  IF x.s = y.s THEN AddMag(big.s, big, small)
                                 ELSE SubMag(big.s, big, small)
           : x \in {x0}, y \in {y0} })

\* x - y
FSub(x, y) == FAdd(x, FNeg(y))

\* numerator a, denominator b (0 <= a < b < 2^24): the next nb quotient bits,
\* returned as <<quotient, remainder>>
RECURSIVE DivBits(_, _, _, _)
DivBits(a, b, q, nb) ==
    IF nb = 0 THEN <<q, a>>
    ELSE LET k == IF nb >= 6 THEN 6 ELSE nb
         IN  Once({ DivBits(t % b, b, q1, nb - k) :
                      t \in {a * 2^k}, q1 \in {q * 2^k + (a * 2^k) \div b} })

\* x / y, y # 0
FDiv(x0, y0) ==
    Once({ LET s == (x.s + y.s) % 2
           IN  IF x.m = 0 THEN FZero(s)
               ELSE Once({ RoundF32(s, r[1], x.e - y.e - 27, r[2] # 0) :
                             r \in {DivBits(x.m % y.m, y.m, x.m \div y.m, 27)} })
           : x \in {x0}, y \in {y0} })

\* f32::max, f32::min
FMax(x0, y0) == Once({ IF FLt(x, y) THEN y ELSE x : x \in {x0}, y \in {y0} })

FMin(x0, y0) == Once({ IF FLt(y, x) THEN y ELSE x : x \in {x0}, y \in {y0} })

\* f32::round: the nearest integer, halves away from zero
FRound(x0) ==
    Once({ IF x.m = 0 \/ x.e >= 0 THEN x
           ELSE IF x.e < 0 - 24 THEN FZero(x.s)
           ELSE LET p == 2^(0 - x.e)
                    q == x.m \div p
                    n == IF 2 * (x.m % p) >= p THEN q + 1 ELSE q
                IN  RoundF32(x.s, n, 0, FALSE)
           : x \in {x0} })

\* `x as u8`: truncation toward zero, saturating at 0 and 255
AsU8(x0) ==
    Once({ IF x.m = 0 \/ x.s = 1 THEN 0
           ELSE IF x.e >= 0 - 15 THEN 255
           ELSE IF x.e < 0 - 23 THEN 0
           ELSE x.m \div 2^(0 - x.e)
           : x \in {x0} })

\* (2 * r) mod b, d times over: r * 2^d mod b without leaving 32 bits
RECURSIVE ShiftMod(_, _, _)
ShiftMod(r, b, d) ==
    IF d = 0 THEN r ELSE Once({ ShiftMod(r1, b, d - 1) : r1 \in {(2 * r) % b} })

\* x % y (fmod, exact), y # 0: the result takes the sign of x
FRem(x0, y0) ==
    Once({ IF MagLt(x, y) THEN x
           ELSE RoundF32(x.s, ShiftMod(x.m % y.m, y.m, x.e - y.e), y.e, FALSE)
           : x \in {x0}, y \in {y0} })

(***************************************************************************)
(* Characters and strings.  The alphabet is ASCII: decimal digits, letters,*)
(* '_' (the regex class \w), and punctuation; a string's byte length is    *)
(* its number of characters.                                               *)
(***************************************************************************)
DecDigits == <<"0", "1", "2", "3", "4", "5", "6", "7", "8", "9">>

LowerLetters == <<"a", "b", "c", "d", "e", "f", "g", "h", "i", "j", "k", "l", "m",
                  "n", "o", "p", "q", "r", "s", "t", "u", "v", "w", "x", "y", "z">>

UpperLetters == <<"A", "B", "C", "D", "E", "F", "G", "H", "I", "J", "K", "L", "M",
                  "N", "O", "P", "Q", "R", "S", "T", "U", "V", "W", "X", "Y", "Z">>

IndexOf(seq, c) == IF \E i \in 1..Len(seq) : seq[i] = c
                   THEN CHOOSE i \in 1..Len(seq) : seq[i] = c
                   ELSE 0

\* the regex class \d
IsDigit(c) == IndexOf(DecDigits, c) # 0

DigitVal(c) == IndexOf(DecDigits, c) - 1

\* the regex class \w
IsWord(c) == IsDigit(c) \/ c = "_" \/ IndexOf(LowerLetters, c) # 0
                \/ IndexOf(UpperLetters, c) # 0

\* char::to_digit(16) as u8::from_str_radix uses it: -1 for no hex digit
HexVal(c) ==
    IF IsDigit(c) THEN DigitVal(c)
    ELSE IF IndexOf(LowerLetters, c) \in 1..6 THEN 9 + IndexOf(LowerLetters, c)
    ELSE IF IndexOf(UpperLetters, c) \in 1..6 THEN 9 + IndexOf(UpperLetters, c)
    ELSE 0 - 1

\* str::starts_with
StartsWith(s, p) == Len(s) >= Len(p) /\ SubSeq(s, 1, Len(p)) = p

\* color.replace(" ", "")
RemoveSpaces(s) == SelectSeq(s, LAMBDA c : c # " ")

AllDigits(t) == Len(t) >= 1 /\ \A i \in 1..Len(t) : IsDigit(t[i])

AllWord(t) == \A i \in 1..Len(t) : IsWord(t[i])

\* the fields of s between commas
RECURSIVE SplitCommas(_)
SplitCommas(s) ==
    LET i == IndexOf(s, ",")
    IN  IF i = 0 THEN <<s>>
        ELSE <<SubSeq(s, 1, i - 1)>> \o SplitCommas(SubSeq(s, i + 1, Len(s)))

\* the decimal value of a digit string, clamped to cap
RECURSIVE DecClamp(_, _, _)
DecClamp(t, v, cap) ==
    IF t = <<>> THEN v
    ELSE LET w == v * 10 + DigitVal(Head(t))
         IN  DecClamp(Tail(t), IF w > cap THEN cap ELSE w, cap)

RECURSIVE StripZeros(_)
StripZeros(t) == IF Len(t) > 1 /\ Head(t) = "0" THEN StripZeros(Tail(t)) ELSE t

\* a > b for digit strings of equal length
RECURSIVE DigitsGt(_, _)
DigitsGt(a, b) ==
    IF a = <<>> THEN FALSE
    ELSE IF Head(a) # Head(b) THEN DigitVal(Head(a)) > DigitVal(Head(b))
    ELSE DigitsGt(Tail(a), Tail(b))

\* u32::MAX, 4294967295, as a digit string (no 32-bit signed integer holds it)
U32MaxDigits == <<"4", "2", "9", "4", "9", "6", "7", "2", "9", "5">>

\* The values a parsed u32 is kept to: every u32 the code reads is only
\* compared with 360 or divided by 100.0 and compared with 1.0, and every
\* value from 2^24 on compares alike.
U32Clamp == 2^24

\* s.parse::<u8>().ok(): -1 for None
ParseU8(t) ==
    IF AllDigits(t) /\ DecClamp(t, 0, 256) <= 255 THEN DecClamp(t, 0, 256) ELSE 0 - 1

\* s.parse::<u32>().ok(): -1 for None (a value above u32::MAX), else the value,
\* kept to U32Clamp
ParseU32(t) ==
    IF ~AllDigits(t) THEN 0 - 1
    ELSE LET z == StripZeros(t)
         IN  IF Len(z) > 10 \/ (Len(z) = 10 /\ DigitsGt(z, U32MaxDigits)) THEN 0 - 1
             ELSE DecClamp(z, 0, U32Clamp)

RECURSIVE Pow10(_)
Pow10(k) == IF k = 0 THEN 1 ELSE 10 * Pow10(k - 1)

\* s.parse::<f32>() of a token \d+(\.\d+)?: the f32 nearest to its decimal value.
\* Exact for tokens of at most 7 digits after the leading zeros: the quotient of
\* two integers below 2^24 is rounded once, as the parse is.
ParseF32(t) ==
    LET i == IndexOf(t, ".")
    IN  IF i = 0 THEN FromInt(DecClamp(t, 0, U32Clamp))
        ELSE LET frac == SubSeq(t, i + 1, Len(t))
                 all  == StripZeros(SubSeq(t, 1, i - 1) \o frac)
             IN  FDiv(FromInt(DecClamp(all, 0, U32Clamp)), FromInt(Pow10(Len(frac))))

\* format!("{}", n) of an unsigned integer
RECURSIVE Dec(_)
Dec(n) == IF n < 10 THEN <<DecDigits[n + 1]>>
          ELSE Dec(n \div 10) \o <<DecDigits[(n % 10) + 1]>>

HexDigitUpper(d) == IF d < 10 THEN DecDigits[d + 1] ELSE UpperLetters[d - 9]

\* format!("{:02X}", v) of a u8
Hex2(v) == <<HexDigitUpper(v \div 16), HexDigitUpper(v % 16)>>

(***************************************************************************)
(* utils.rs                                                                *)
(***************************************************************************)
\* match_to_num without the doubling: a one-digit token read as one digit
match_to_num_undoubled(t) ==
    IF Len(t) = 1 THEN HexVal(t[1])
    ELSE IF HexVal(t[1]) >= 0 /\ HexVal(t[2]) >= 0 THEN 16 * HexVal(t[1]) + HexVal(t[2])
    ELSE 0 - 1

\* match_to_num: the first two bytes of the token repeated twice, read as
\* hexadecimal; -1 for None
match_to_num(t) ==
    LET d == SubSeq(t \o t, 1, 2)
    IN  IF Len(d) = 2 /\ HexVal(d[1]) >= 0 /\ HexVal(d[2]) >= 0
        THEN 16 * HexVal(d[1]) + HexVal(d[2])
        ELSE 0 - 1

\* match_to_num2: the token read as a decimal u8; -1 for None
match_to_num2(t) == ParseU8(t)

\* calc_rgb_with_alpha without the white background
calc_rgb_with_alpha_unmixed(v, alpha) == FMul(FromInt(v), alpha)

calc_rgb_with_alpha(v, alpha) ==
    FAdd(FMul(FromInt(v), alpha), FMul(FromInt(255), FSub(FromInt(1), alpha)))

\* is_valid_num on the half-open range 0.0..1.0
is_valid_num_exclusive(v) == FLe(FromInt(0), v) /\ FLt(v, FromInt(1))

is_valid_num(v) == FLe(FromInt(0), v) /\ FLe(v, FromInt(1))

(***************************************************************************)
(* Color and ColorResult                                                   *)
(***************************************************************************)
Color(r, g, b, a) == [r |-> r, g |-> g, b |-> b, a |-> a]

NoColor == [r |-> 0, g |-> 0, b |-> 0, a |-> FZero(0)]

Ok(c) == [ok |-> TRUE, c |-> c, err |-> "none"]

Err(kind) == [ok |-> FALSE, c |-> NoColor, err |-> kind]

\* before any constructor has run
None == [ok |-> FALSE, c |-> NoColor, err |-> "unset"]

(***************************************************************************)
(* The recognizer's grammars.  A match yields the sequence of captured     *)
(* tokens, no match the empty sequence.                                    *)
(***************************************************************************)
\* ^#(\w{2})(\w{2})(\w{2})$
HEX_REG(s) ==
    IF Len(s) = 7 /\ s[1] = "#" /\ AllWord(SubSeq(s, 2, 7))
    THEN <<SubSeq(s, 2, 3), SubSeq(s, 4, 5), SubSeq(s, 6, 7)>>
    ELSE <<>>

\* ^#(\w{2})(\w{2})(\w{2})(\w{2})$
HEX_WITH_TRANS_REG(s) ==
    IF Len(s) = 9 /\ s[1] = "#" /\ AllWord(SubSeq(s, 2, 9))
    THEN <<SubSeq(s, 2, 3), SubSeq(s, 4, 5), SubSeq(s, 6, 7), SubSeq(s, 8, 9)>>
    ELSE <<>>

\* ^#(\w)(\w)(\w)$
SHORT_HEX_REG(s) ==
    IF Len(s) = 4 /\ s[1] = "#" /\ AllWord(SubSeq(s, 2, 4))
    THEN <<SubSeq(s, 2, 2), SubSeq(s, 3, 3), SubSeq(s, 4, 4)>>
    ELSE <<>>

\* One comma-separated field against its pattern: "d" is (\d+), "p" is (\d+)%,
\* "f" is (\d+(\.\d+)?), "z" is (0\.\d+).  The capture, or <<>> for no match.
Field(kind, t) ==
    LET dot == IndexOf(t, ".")
    IN  CASE kind = "d" -> IF AllDigits(t) THEN t ELSE <<>>
          [] kind = "p" -> IF Len(t) >= 2 /\ t[Len(t)] = "%" /\ AllDigits(SubSeq(t, 1, Len(t) - 1))
                           THEN SubSeq(t, 1, Len(t) - 1) ELSE <<>>
          [] kind = "f" -> IF AllDigits(t)
                              \/ (dot # 0 /\ AllDigits(SubSeq(t, 1, dot - 1))
                                          /\ AllDigits(SubSeq(t, dot + 1, Len(t))))
                           THEN t ELSE <<>>
          [] kind = "z" -> IF Len(t) >= 3 /\ t[1] = "0" /\ t[2] = "."
                              /\ AllDigits(SubSeq(t, 3, Len(t)))
                           THEN t ELSE <<>>

\* ^name\(field,...,field\)$ : no field pattern admits a comma or a parenthesis,
\* so the text between the parentheses splits at its commas in one way only
Captures(s, name, kinds) ==
    LET open == name \o <<"(">>
    IN  IF StartsWith(s, open) /\ Len(s) > Len(open) /\ s[Len(s)] = ")"
        THEN LET fs == SplitCommas(SubSeq(s, Len(open) + 1, Len(s) - 1))
             IN  IF Len(fs) = Len(kinds)
                    /\ \A i \in 1..Len(fs) : Field(kinds[i], fs[i]) # <<>>
                 THEN [i \in 1..Len(fs) |-> Field(kinds[i], fs[i])]
                 ELSE <<>>
        ELSE <<>>

RGB_REG(s) == Captures(s, <<"r", "g", "b">>, <<"d", "d", "d">>)

RGBA_REG(s) == Captures(s, <<"r", "g", "b", "a">>, <<"d", "d", "d", "f">>)

HSL_REG(s) == Captures(s, <<"h", "s", "l">>, <<"d", "p", "p">>)

HSLA_REG(s) == Captures(s, <<"h", "s", "l", "a">>, <<"d", "p", "p", "z">>)

CMYK_REG(s) == Captures(s, <<"c", "m", "y", "k">>, <<"d", "d", "d", "d">>)

HSV_REG(s) == Captures(s, <<"h", "s", "v">>, <<"d", "p", "p">>)

(***************************************************************************)
(* Constructors from numbers                                               *)
(***************************************************************************)
\* the (r, g, b) triple of the hue's 60-degree sector
Sector(h, c, x) ==
    LET z == FZero(0)
    IN  IF h < 60 THEN <<c, x, z>>
        ELSE IF 60 <= h /\ h < 120 THEN <<x, c, z>>
        ELSE IF 120 <= h /\ h < 180 THEN <<z, c, x>>
        ELSE IF 180 <= h /\ h < 240 THEN <<z, x, c>>
        ELSE IF 240 <= h /\ h < 300 THEN <<x, z, c>>
        ELSE IF 300 <= h /\ h < 360 THEN <<c, z, x>>
        ELSE <<z, z, z>>

\* c * (1.0 - ((h as f32 / 60.0) % 2.0 - 1.0).abs())
HueX(h, c) ==
    FMul(c, FSub(FromInt(1),
                 FAbs(FSub(FRem(FDiv(FromInt(h), FromInt(60)), FromInt(2)), FromInt(1)))))

\* the scaled value rounded to the nearest byte
Scale_rounded(p, m) == AsU8(FRound(FMul(FAdd(p, m), FromInt(255))))

\* ((p + m) * 255.0) as u8
Scale(p, m) == AsU8(FMul(FAdd(p, m), FromInt(255)))

from_hsl(h, s, l) ==
    IF ~is_valid_num(s) \/ ~is_valid_num(l) \/ ~(0 <= h /\ h < 360)
    THEN Err("Value")
    ELSE Once({ Once({ Ok(Color(Scale(rgb[1], m), Scale(rgb[2], m), Scale(rgb[3], m),
                                FromInt(1)))
                       : m \in {FSub(l, FDiv(c, FromInt(2)))},
                         rgb \in {Sector(h, c, HueX(h, c))} })
                : c \in {FMul(FSub(FromInt(1), FAbs(FSub(FMul(l, FromInt(2)), FromInt(1)))),
                              s)} })

\* set_alpha on a Color value
set_alpha(c, alpha) == [c EXCEPT !.a = alpha]

from_hsla(h, s, l, a) ==
    Once({ IF color.ok THEN Ok(set_alpha(color.c, a)) ELSE color :
             color \in {from_hsl(h, s, l)} })

from_rgb(r, g, b) == Ok(Color(r, g, b, FromInt(1)))

from_rgba(r, g, b, a) ==
    IF ~is_valid_num(a) THEN Err("Value") ELSE Ok(Color(r, g, b, a))

from_cmyk(c, m, y, k) ==
    IF ~is_valid_num(c) \/ ~is_valid_num(m) \/ ~is_valid_num(y) \/ ~is_valid_num(k)
    THEN Err("Value")
    ELSE LET t  == FSub(FromInt(1), k)
             ch(v) == AsU8(FMul(FMul(FSub(FromInt(1), v), t), FromInt(255)))
         IN  Ok(Color(ch(c), ch(m), ch(y), FromInt(1)))

from_hsv(h, s, v) ==
    IF ~is_valid_num(s) \/ ~is_valid_num(v) \/ ~(0 <= h /\ h < 360)
    THEN Err("Value")
    ELSE Once({ Once({ Ok(Color(Scale(rgb[1], m), Scale(rgb[2], m), Scale(rgb[3], m),
                                FromInt(1)))
                       : m \in {FSub(v, c)}, rgb \in {Sector(h, c, HueX(h, c))} })
                : c \in {FMul(v, s)} })

(***************************************************************************)
(* Constructors from text                                                  *)
(***************************************************************************)
\* the parsed percentage passed on undivided
Percent_undivided(n) == FromInt(n)

\* `n as f32 / 100.0` of a parsed percentage
Percent(n) == FDiv(FromInt(n), FromInt(100))

from_hex(hex) ==
    LET cps == IF HEX_REG(hex) # <<>> THEN HEX_REG(hex) ELSE SHORT_HEX_REG(hex)
    IN  IF cps = <<>> THEN Err("Format")
        ELSE LET r == match_to_num(cps[1])
                 g == match_to_num(cps[2])
                 b == match_to_num(cps[3])
             IN  IF r >= 0 /\ g >= 0 /\ b >= 0
                 THEN Ok(Color(r, g, b, FromInt(1)))
                 ELSE Err("Format")

from_hex_alpha(hex_alpha) ==
    LET cps == HEX_WITH_TRANS_REG(hex_alpha)
    IN  IF cps = <<>> THEN Err("Format")
        ELSE LET r == match_to_num(cps[1])
                 g == match_to_num(cps[2])
                 b == match_to_num(cps[3])
                 a == match_to_num2(cps[4])
             IN  IF r >= 0 /\ g >= 0 /\ b >= 0 /\ a >= 0
                 THEN Ok(Color(r, g, b, FromInt(a \div 255)))
                 ELSE Err("Format")

from_rgb_str(rgb) ==
    LET cps == RGB_REG(rgb)
    IN  IF cps = <<>> THEN Err("Format")
        ELSE LET r == match_to_num2(cps[1])
                 g == match_to_num2(cps[2])
                 b == match_to_num2(cps[3])
             IN  IF r >= 0 /\ g >= 0 /\ b >= 0
                 THEN Ok(Color(r, g, b, FromInt(1)))
                 ELSE Err("Format")

\* the alpha is read from capture 3, the blue token, and is not range-checked
from_rgba_str(rgba) ==
    LET cps == RGBA_REG(rgba)
    IN  IF cps = <<>> THEN Err("Format")
        ELSE LET r == match_to_num2(cps[1])
                 g == match_to_num2(cps[2])
                 b == match_to_num2(cps[3])
                 a == ParseF32(cps[3])
             IN  IF r >= 0 /\ g >= 0 /\ b >= 0
                 THEN Ok(Color(r, g, b, a))
                 ELSE Err("Format")

from_hsl_str(hsl) ==
    LET cps == HSL_REG(hsl)
    IN  IF cps = <<>> THEN Err("Format")
        ELSE LET h == ParseU32(cps[1])
                 s == ParseU32(cps[2])
                 l == ParseU32(cps[3])
             IN  IF h >= 0 /\ s >= 0 /\ l >= 0
                 THEN from_hsl(h, Percent(s), Percent(l))
                 ELSE Err("Format")

from_hsla_str(hsla) ==
    LET cps == HSLA_REG(hsla)
    IN  IF cps = <<>> THEN Err("Format")
        ELSE LET h == ParseU32(cps[1])
                 s == ParseU32(cps[2])
                 l == ParseU32(cps[3])
                 a == ParseF32(cps[4])
             IN  IF h >= 0 /\ s >= 0 /\ l >= 0
                 THEN from_hsla(h, Percent(s), Percent(l), a)
                 ELSE Err("Format")

from_hsv_str(hsv) ==
    LET cps == HSV_REG(hsv)
    IN  IF cps = <<>> THEN Err("Format")
        ELSE LET h == ParseU32(cps[1])
                 s == ParseU32(cps[2])
                 v == ParseU32(cps[3])
             IN  IF h >= 0 /\ s >= 0 /\ v >= 0
                 THEN from_hsv(h, Percent(s), Percent(v))
                 ELSE Err("Format")

from_cmyk_str(cmyk) ==
    LET cps == CMYK_REG(cmyk)
    IN  IF cps = <<>> THEN Err("Format")
        ELSE LET c == ParseU32(cps[1])
                 m == ParseU32(cps[2])
                 y == ParseU32(cps[3])
                 k == ParseU32(cps[4])
             IN  IF c >= 0 /\ m >= 0 /\ y >= 0 /\ k >= 0
                 THEN from_cmyk(Percent(c), Percent(m), Percent(y), Percent(k))
                 ELSE Err("Format")

\* Color::from taking the '#' out of the length: 8 for #RRGGBBAA
from_len8(color) ==
    LET len       == Len(color)
        color_str == RemoveSpaces(color)
    IN  IF StartsWith(color, <<"#">>) /\ (len = 4 \/ len = 7) THEN from_hex(color)
        ELSE IF StartsWith(color, <<"#">>) /\ len = 8 THEN from_hex_alpha(color)
        ELSE IF StartsWith(color_str, <<"r", "g", "b", "(">>) THEN from_rgb_str(color_str)
        ELSE IF StartsWith(color_str, <<"r", "g", "b", "a", "(">>) THEN from_rgba_str(color_str)
        ELSE IF StartsWith(color_str, <<"h", "s", "l", "(">>) THEN from_hsl_str(color_str)
        ELSE IF StartsWith(color_str, <<"h", "s", "l", "a">>) THEN from_hsla_str(color_str)
        ELSE IF StartsWith(color_str, <<"h", "s", "v", "(">>) THEN from_hsv_str(color_str)
        ELSE IF StartsWith(color_str, <<"c", "m", "y", "k", "(">>) THEN from_cmyk_str(color_str)
        ELSE Err("Format")

\* Color::from
from(color) ==
    LET len       == Len(color)
        color_str == RemoveSpaces(color)
    IN  IF StartsWith(color, <<"#">>) /\ (len = 4 \/ len = 7) THEN from_hex(color)
        ELSE IF StartsWith(color, <<"#">>) /\ len = 9 THEN from_hex_alpha(color)
        ELSE IF StartsWith(color_str, <<"r", "g", "b", "(">>) THEN from_rgb_str(color_str)
        ELSE IF StartsWith(color_str, <<"r", "g", "b", "a", "(">>) THEN from_rgba_str(color_str)
        ELSE IF StartsWith(color_str, <<"h", "s", "l", "(">>) THEN from_hsl_str(color_str)
        ELSE IF StartsWith(color_str, <<"h", "s", "l", "a">>) THEN from_hsla_str(color_str)
        ELSE IF StartsWith(color_str, <<"h", "s", "v", "(">>) THEN from_hsv_str(color_str)
        ELSE IF StartsWith(color_str, <<"c", "m", "y", "k", "(">>) THEN from_cmyk_str(color_str)
        ELSE Err("Format")

(***************************************************************************)
(* Renderers                                                               *)
(***************************************************************************)
\* the channel flattened against white, as a byte
Blend(v, alpha) == AsU8(calc_rgb_with_alpha(v, alpha))

to_hex(c) == <<"#">> \o Hex2(Blend(c.r, c.a)) \o Hex2(Blend(c.g, c.a)) \o Hex2(Blend(c.b, c.a))

to_rgb(c) ==
    <<"r", "g", "b", "(">> \o Dec(Blend(c.r, c.a)) \o <<",">> \o Dec(Blend(c.g, c.a))
        \o <<",">> \o Dec(Blend(c.b, c.a)) \o <<")">>

\* `x as u32` of an f32 (truncation toward zero, saturating at 0), kept to U32Clamp
AsU32(x0) ==
    Once({ IF x.m = 0 \/ x.s = 1 THEN 0
           ELSE IF x.e >= 1 THEN U32Clamp
           ELSE IF x.e < 0 - 23 THEN 0
           ELSE x.m \div 2^(0 - x.e)
           : x \in {x0} })

\* v in w decimal digits, zeros in front
RECURSIVE PadDec(_, _)
PadDec(v, w) == IF w = 0 THEN <<>> ELSE PadDec(v \div 10, w - 1) \o <<DecDigits[(v % 10) + 1]>>

\* n / 10^p written out, with the sign of x
Decimal(x, n, p) ==
    (IF x.s = 1 THEN <<"-">> ELSE <<>>)
        \o Dec(n \div Pow10(p))
        \o (IF p = 0 THEN <<>> ELSE <<".">> \o PadDec(n % Pow10(p), p))

\* |x| * 10^p to the nearest integer, halves to even, on the exact value of x
FixedInt(x, p) ==
    LET M == x.m * Pow10(p)
    IN  IF x.e >= 0 THEN M * 2^x.e
        ELSE IF 0 - x.e > 30 THEN 0
        ELSE LET d   == 2^(0 - x.e)
                 q   == M \div d
                 rem == M % d
             IN  IF rem > d \div 2 \/ (rem = d \div 2 /\ q % 2 = 1) THEN q + 1 ELSE q

\* format!("{:.p}", x) of an f32, p = 0 or 1
FmtFixed(x0, p) == Once({ Decimal(x, FixedInt(x, p), p) : x \in {x0} })

\* the integers n below 2^24 for which n / 10^p is read back as |x|
Shortest(x, p) ==
    LET t == AsU32(FMul(FAbs(x), FromInt(Pow10(p))))
    IN  { k \in {t - 1, t, t + 1} :
            /\ k > 0
            /\ k < P24
            /\ FDiv(FromInt(k), FromInt(Pow10(p))) = FAbs(x) }

\* format!("{}", x) of an f32: the shortest decimal that reads back as x, and
\* of those the nearest to x; for the f32 that up to 7 decimals and 2^24 give
Display(x) ==
    IF x.m = 0 THEN Decimal(x, 0, 0)
    ELSE Once({ Once({ Once({ Decimal(x, n, p) :
                                n \in { CHOOSE k \in ns : \A j \in ns :
                                          FLe(FAbs(FSub(FromInt(k), y)),
                                              FAbs(FSub(FromInt(j), y))) } })
                       : ns \in {Shortest(x, p)},
                         y \in {FMul(FAbs(x), FromInt(Pow10(p)))} })
                : p \in { CHOOSE k \in 0..7 :
                            /\ Shortest(x, k) # {}
                            /\ \A j \in 0..(k - 1) : Shortest(x, j) = {} } })

to_hex_alpha(c) ==
    <<"#">> \o Hex2(c.r) \o Hex2(c.g) \o Hex2(c.b) \o Hex2(AsU8(FMul(c.a, FromInt(255))))

to_rgba(c) ==
    <<"r", "g", "b", "a", "(">> \o Dec(c.r) \o <<",">> \o Dec(c.g) \o <<",">> \o Dec(c.b)
        \o <<",">> \o Display(c.a) \o <<")">>

\* the channel as stored, whatever with_alpha says
Unit_raw(v, alpha, with_alpha) == FDiv(FromInt(v), FromInt(255))

\* a channel as a fraction of 255: flattened against white, or as stored
Unit(v, alpha, with_alpha) ==
    IF with_alpha THEN FDiv(calc_rgb_with_alpha(v, alpha), FromInt(255))
    ELSE FDiv(FromInt(v), FromInt(255))

\* the hue of to_hsl_val and to_hsv, in degrees, before rounding
Hue(r, g, b) ==
    Once({ Once({ Once({ IF FLt(h, FromInt(0)) THEN FAdd(h, FromInt(360)) ELSE h :
                           h \in { IF FEq(delta, FromInt(0)) THEN FromInt(0)
                                   ELSE IF FEq(c_max, r)
                                   THEN FMul(FromInt(60),
                                             FRem(FDiv(FSub(g, b), delta), FromInt(6)))
                                   ELSE IF FEq(c_max, g)
                                   THEN FMul(FromInt(60),
                                             FAdd(FDiv(FSub(b, r), delta), FromInt(2)))
                                   ELSE FMul(FromInt(60),
                                             FAdd(FDiv(FSub(r, g), delta), FromInt(4))) } })
                  : delta \in {FSub(c_max, FMin(FMin(r, g), b))} })
           : c_max \in {FMax(FMax(r, g), b)} })

to_hsl_val(c, with_alpha) ==
    Once({ Once({ LET delta == FSub(c_max, c_min)
                      l     == FDiv(FAdd(c_max, c_min), FromInt(2))
                      s     == IF FEq(delta, FromInt(0)) THEN FromInt(0)
                               ELSE FDiv(delta,
                                         FSub(FromInt(1),
                                              FAbs(FSub(FMul(FromInt(2), l), FromInt(1)))))
                  IN  [h |-> AsU32(FRound(Hue(r, g, b))), s |-> s, l |-> l]
                  : c_max \in {FMax(FMax(r, g), b)}, c_min \in {FMin(FMin(r, g), b)} })
           : r \in {Unit(c.r, c.a, with_alpha)},
             g \in {Unit(c.g, c.a, with_alpha)},
             b \in {Unit(c.b, c.a, with_alpha)} })

\* format!("{:.0}", x * 100.0)
Pct100(x) == FmtFixed(FMul(x, FromInt(100)), 0)

to_hsl(c) ==
    Once({ <<"h", "s", "l", "(">> \o Dec(v.h) \o <<",">> \o Pct100(v.s) \o <<"%", ",">>
               \o Pct100(v.l) \o <<"%", ")">>
           : v \in {to_hsl_val(c, TRUE)} })

to_hsla(c) ==
    Once({ <<"h", "s", "l", "a", "(">> \o Dec(v.h) \o <<",">> \o Pct100(v.s) \o <<"%", ",">>
               \o Pct100(v.l) \o <<"%", ",">> \o FmtFixed(c.a, 1) \o <<")">>
           : v \in {to_hsl_val(c, FALSE)} })

to_hsv(c) ==
    Once({ LET c_max == FMax(FMax(r, g), b)
               delta == FSub(c_max, FMin(FMin(r, g), b))
               s     == IF FEq(c_max, FromInt(0)) THEN FromInt(0) ELSE FDiv(delta, c_max)
           IN  <<"h", "s", "v", "(">> \o FmtFixed(Hue(r, g, b), 0) \o <<",">> \o Pct100(s)
                   \o <<"%", ",">> \o Pct100(c_max) \o <<"%", ")">>
           : r \in {Unit(c.r, c.a, TRUE)},
             g \in {Unit(c.g, c.a, TRUE)},
             b \in {Unit(c.b, c.a, TRUE)} })

to_cmyk(c) ==
    Once({ LET k    == FSub(FromInt(1), FMax(FMax(r, g), b))
               t    == FSub(FromInt(1), k)
               X(v) == IF FEq(k, FromInt(1)) THEN FromInt(0)
                       ELSE FDiv(FSub(FSub(FromInt(1), v), k), t)
           IN  <<"c", "m", "y", "k", "(">> \o Pct100(X(r)) \o <<",">> \o Pct100(X(g))
                   \o <<",">> \o Pct100(X(b)) \o <<",">> \o Pct100(k) \o <<")">>
           : r \in {Unit(c.r, c.a, TRUE)},
             g \in {Unit(c.g, c.a, TRUE)},
             b \in {Unit(c.b, c.a, TRUE)} })

is_dark(c) == FLt(to_hsl_val(c, TRUE).l, FDiv(FromInt(1), FromInt(2)))

(***************************************************************************)
(* Transforms                                                              *)
(***************************************************************************)
\* negate leaving the alpha as it is
negate_keep_alpha(c) == Color(255 - c.r, 255 - c.g, 255 - c.b, c.a)

\* negate with the alpha subtraction the other way round
negate_swapped(c) == Color(255 - c.r, 255 - c.g, 255 - c.b, FSub(c.a, FromInt(1)))

negate(c) == Color(255 - c.r, 255 - c.g, 255 - c.b, FSub(FromInt(1), c.a))

\* the ratio taken as given
Clamp01_unclamped(ratio) == ratio

\* ratio.max(0.0).min(1.0)
Clamp01(ratio) == FMin(FMax(ratio, FromInt(0)), FromInt(1))

\* (x * 100.0).round() / 100.0
Round2(x) == FDiv(FRound(FMul(x, FromInt(100))), FromInt(100))

fade(c, ratio) ==
    [c EXCEPT !.a = Round2(FSub(c.a, FMul(c.a, Clamp01(ratio))))]

\* opaquer without the cap at 1.0
opaquer_uncapped(c, ratio) ==
    [c EXCEPT !.a = Round2(FAdd(c.a, FMul(c.a, Clamp01(ratio))))]

opaquer(c, ratio) ==
    [c EXCEPT !.a = Round2(FMin(FAdd(c.a, FMul(c.a, Clamp01(ratio))), FromInt(1)))]

(***************************************************************************)
(* The texts handed to Color::from.  An input records the notation (kind), *)
(* the text, the integer tokens it was written from (toks: each token's    *)
(* digits and the number they denote) and, for rgba and hsla, the alpha    *)
(* token (atok: its characters and the f32 nearest to its decimal value).  *)
(***************************************************************************)
\* the f32 nearest to n / d: the source's decimal literals (0.5 is Lit(5, 10))
Lit(n, d) == FDiv(FromInt(n), FromInt(d))

Tok(n) == [txt |-> Dec(n), val |-> n]

\* u32::MAX + 1, which no u32 holds; val stands for "above every range"
HugeTok == [txt |-> <<"4", "2", "9", "4", "9", "6", "7", "2", "9", "6">>, val |-> U32Clamp]

\* a token with leading zeros
ZeroedTok == [txt |-> <<"0", "0", "7">>, val |-> 7]

ATok(txt, n, d) == [txt |-> txt, val |-> Lit(n, d)]

NoATok == [txt |-> <<>>, val |-> FZero(0)]

AlphaToks ==
    { ATok(<<"0">>, 0, 1), ATok(<<"1">>, 1, 1), ATok(<<"0", ".", "8">>, 8, 10),
      ATok(<<"0", ".", "5">>, 5, 10), ATok(<<"0", ".", "2", "5">>, 25, 100),
      ATok(<<"1", ".", "5">>, 15, 10), ATok(<<"2">>, 2, 1) }

\* the alpha tokens the hsla grammar admits: 0.f
ZeroAlphaToks ==
    { ATok(<<"0", ".", "5">>, 5, 10), ATok(<<"0", ".", "0">>, 0, 1),
      ATok(<<"0", ".", "2", "5">>, 25, 100) }

Seps == {<<",">>, <<",", " ">>}

RECURSIVE Join(_, _)
Join(fields, sep) ==
    IF Len(fields) = 1 THEN fields[1]
    ELSE fields[1] \o sep \o Join(Tail(fields), sep)

\* name(f1,f2,...) with each integer token followed by suffix[i]
Notation(name, toks, suffix, atok, sep) ==
    LET fs == [i \in 1..Len(toks) |-> toks[i].txt \o suffix[i]]
    IN  name \o <<"(">> \o Join(IF atok.txt = <<>> THEN fs ELSE Append(fs, atok.txt), sep)
             \o <<")">>

Input(kind, name, toks, suffix, atok, sep) ==
    [kind |-> kind, text |-> Notation(name, toks, suffix, atok, sep),
     toks |-> toks, atok |-> atok]

ByteToks == {Tok(0), Tok(129), Tok(255)}

RgbInputs ==
    { Input("rgb", <<"r", "g", "b">>, <<r, g, b>>, <<<<>>, <<>>, <<>>>>, NoATok, sep) :
        r \in ByteToks \cup {Tok(256)}, g \in ByteToks \cup {ZeroedTok}, b \in ByteToks,
        sep \in Seps }

RgbaInputs ==
    { Input("rgba", <<"r", "g", "b", "a">>, <<r, g, b>>, <<<<>>, <<>>, <<>>>>, a, sep) :
        r \in ByteToks, g \in {Tok(45), ZeroedTok}, b \in {Tok(0), Tok(1), Tok(78)},
        a \in AlphaToks, sep \in Seps }

HueToks == {Tok(0), Tok(120), Tok(210), Tok(359), Tok(360), Tok(400), HugeTok}

PercentToks == {Tok(0), Tok(45), Tok(100), Tok(101)}

Pct == <<"%">>

HslInputs ==
    { Input("hsl", <<"h", "s", "l">>, <<h, s, l>>, <<<<>>, Pct, Pct>>, NoATok, sep) :
        h \in HueToks, s \in PercentToks, l \in PercentToks \cup {HugeTok}, sep \in Seps }

HsvInputs ==
    { Input("hsv", <<"h", "s", "v">>, <<h, s, v>>, <<<<>>, Pct, Pct>>, NoATok, sep) :
        h \in HueToks, s \in PercentToks, v \in PercentToks \cup {ZeroedTok}, sep \in Seps }

HslaInputs ==
    { Input("hsla", <<"h", "s", "l", "a">>, <<h, s, l>>, <<<<>>, Pct, Pct>>, a, sep) :
        h \in {Tok(120), Tok(360)}, s \in {Tok(45), Tok(101)}, l \in {Tok(0), Tok(90)},
        a \in ZeroAlphaToks, sep \in Seps }

CmykToks == {Tok(0), Tok(40), Tok(100), Tok(101)}

CmykInputs ==
    { Input("cmyk", <<"c", "m", "y", "k">>, <<c, m, y, k>>, <<<<>>, <<>>, <<>>, <<>>>>,
            NoATok, <<",">>) :
        c \in CmykToks \cup {HugeTok}, m \in CmykToks, y \in CmykToks, k \in CmykToks }

\* '#' texts: the hexadecimal characters the short and long forms are drawn from
HexChars == {"0", "1", "7", "9", "a", "c", "f", "A", "E", "F"}

HexPairs == {<<x, y>> : x \in HexChars, y \in HexChars}

FewPairs == {<<"0", "0">>, <<"a", "F">>, <<"8", "0">>}

HashInput(kind, text) == [kind |-> kind, text |-> text, toks |-> <<>>, atok |-> NoATok]

ShortHexInputs ==
    { HashInput("short", <<"#", x, y, z>>) : x \in HexChars, y \in HexChars, z \in HexChars }

LongHexInputs ==
    { HashInput("long", <<"#">> \o r \o g \o b) : r \in HexPairs, g \in FewPairs, b \in FewPairs }
    \cup { HashInput("long", <<"#">> \o r \o g \o b) : r \in FewPairs, g \in HexPairs, b \in FewPairs }
    \cup { HashInput("long", <<"#">> \o r \o g \o b) : r \in FewPairs, g \in FewPairs, b \in HexPairs }

HexAlphaInputs ==
    { HashInput("alpha", <<"#">> \o r \o g \o b \o a) :
        r \in FewPairs, g \in FewPairs, b \in FewPairs,
        a \in FewPairs \cup {<<"F", "F">>, <<"7", "f">>, <<"9", "9">>, <<"0", "1">>} }

\* '#' texts of every length up to MaxHashLen, with at most one character of
\* the base replaced: a character that is no hexadecimal digit, or a space
MaxHashLen == 11

HashBase == <<"#", "f", "F", "0", "9", "a", "A", "8", "0", "c", "1", "2">>

OddChars == {"z", "Z", "g", "_", " ", "#", "("}

OddHashInputs ==
    { HashInput("hash", SubSeq(HashBase, 1, n)) : n \in 1..MaxHashLen }
    \cup UNION { { HashInput("hash", [SubSeq(HashBase, 1, n) EXCEPT ![i] = c]) :
                     i \in 2..n, c \in OddChars } : n \in 2..MaxHashLen }

\* texts of no notation, and notations with a keyword in another case or a
\* malformed opening
MiscTexts ==
    { <<>>, <<"r", "e", "d">>, <<" ">>,
      <<"R", "G", "B", "(", "1", "2", "9", ",", "4", "5", ",", "7", "8", ")">>,
      <<"H", "s", "l", "(", "1", "2", "0", ",", "4", "5", "%", ",", "9", "0", "%", ")">>,
      <<"h", "s", "l", "a", "1", "2", "0", ",", "4", "5", "%", ",", "9", "0", "%", ",", "0", ".", "5", ")">>,
      <<"r", "g", "b", "(", "1", ",", "2", ")">>,
      <<"r", "g", "b", "(", "1", ",", "2", ",", "3", ",", "4", ")">>,
      <<"r", "g", "b", "(", "1", ",", "2", ",", "3", ")", ")">>,
      <<"r", "g", "b", "a", "(", "1", ",", "2", ",", "3", ",", ".", "5", ")">>,
      <<"h", "s", "l", "(", "1", "2", "0", ",", "4", "5", ",", "9", "0", "%", ")">>,
      <<" ", "#", "f", "0", "a">>,
      <<"r", " ", "g", "b", "(", "1", " ", "2", ",", "2", ",", "3", ")">> }

MiscInputs == { HashInput("misc", t) : t \in MiscTexts }

FromInputs ==
    RgbInputs \cup RgbaInputs \cup HslInputs \cup HsvInputs \cup HslaInputs \cup CmykInputs
        \cup ShortHexInputs \cup LongHexInputs \cup HexAlphaInputs \cup OddHashInputs
        \cup MiscInputs


(***************************************************************************)
(* The state: one Color value and the calls made on it.  A run is the life *)
(* of one value: a constructor creates it (constructors are associated     *)
(* functions that read no state), the transforms mutate it in place, the   *)
(* renderers read it.                                                      *)
(***************************************************************************)
VARIABLES
    color,      \* the ColorResult of the constructor, mutated by the transforms
    call,       \* the last constructor or transform call and its arguments
    out,        \* the last renderer call and the String it returned
    before,     \* the Color before the last transform
    pcall,      \* the call before the last transform
    before2,    \* the Color before the transform before the last
    n           \* the number of transforms applied

vars == <<color, call, out, before, pcall, before2, n>>

NoCall == [op |-> "none"]

NoOut == [op |-> "none", text |-> <<>>]

Init ==
    /\ color = None
    /\ call = NoCall
    /\ out = NoOut
    /\ before = NoColor
    /\ pcall = NoCall
    /\ before2 = NoColor
    /\ n = 0

\* A constructor call: the value starts its life.
From ==
    /\ color = None
    /\ \E i \in FromInputs :
          /\ color' = from(i.text)
          /\ call' = [op |-> "from", in |-> i]
    /\ UNCHANGED <<out, before, pcall, before2, n>>

FromHex ==
    /\ color = None
    /\ \E i \in ShortHexInputs \cup OddHashInputs :
          /\ color' = from_hex(i.text)
          /\ call' = [op |-> "from_hex", in |-> i]
    /\ UNCHANGED <<out, before, pcall, before2, n>>

FromHexAlpha ==
    /\ color = None
    /\ \E i \in HexAlphaInputs \cup OddHashInputs :
          /\ color' = from_hex_alpha(i.text)
          /\ call' = [op |-> "from_hex_alpha", in |-> i]
    /\ UNCHANGED <<out, before, pcall, before2, n>>

\* A renderer call on the value.
ToHex ==
    /\ color.ok
    /\ out' = [op |-> "to_hex", text |-> to_hex(color.c)]
    /\ UNCHANGED <<color, call, before, pcall, before2, n>>

ToRgb ==
    /\ color.ok
    /\ out' = [op |-> "to_rgb", text |-> to_rgb(color.c)]
    /\ UNCHANGED <<color, call, before, pcall, before2, n>>

NextParse == From \/ FromHex \/ FromHexAlpha \/ ToHex \/ ToRgb

\* the recognizer: one text is parsed, the result is rendered
SpecParse == Init /\ [][NextParse]_vars

(***************************************************************************)
(* The numeric constructors, on arguments inside, on and outside each      *)
(* range.                                                                  *)
(***************************************************************************)
Hues == {0, 59, 60, 120, 210, 240, 300, 359, 360, 361}

\* 1.0 + 2^-23, the f32 next above 1.0
OverOne == F32(0, P23 + 1, 0 - 23)

\* -2^-30, a small negative f32
UnderZero == F32(1, P23, 0 - 53)

Fracs ==
    { Lit(k, 100) : k \in {0 - 1, 0, 30, 44, 50, 79, 80, 100, 101, 150} }
        \cup {FZero(1), OverOne, UnderZero}

FewFracs == {Lit(0 - 1, 100), Lit(0, 1), Lit(1, 10), Lit(5, 10), Lit(1, 1), OverOne}

Bytes == {0, 16, 76, 136, 255}

FromRgb ==
    /\ color = None
    /\ \E r \in Bytes, g \in Bytes, b \in Bytes :
          /\ color' = from_rgb(r, g, b)
          /\ call' = [op |-> "from_rgb", r |-> r, g |-> g, b |-> b]
    /\ UNCHANGED <<out, before, pcall, before2, n>>

FromRgba ==
    /\ color = None
    /\ \E r \in {0, 255}, g \in {76}, b \in {136, 255}, a \in Fracs :
          /\ color' = from_rgba(r, g, b, a)
          /\ call' = [op |-> "from_rgba", r |-> r, g |-> g, b |-> b, a |-> a]
    /\ UNCHANGED <<out, before, pcall, before2, n>>

FromHsl ==
    /\ color = None
    /\ \E h \in Hues, s \in Fracs, l \in Fracs :
          /\ color' = from_hsl(h, s, l)
          /\ call' = [op |-> "from_hsl", h |-> h, s |-> s, l |-> l]
    /\ UNCHANGED <<out, before, pcall, before2, n>>

FromHsla ==
    /\ color = None
    /\ \E h \in {210, 360}, s \in FewFracs, l \in FewFracs, a \in Fracs :
          /\ color' = from_hsla(h, s, l, a)
          /\ call' = [op |-> "from_hsla", h |-> h, s |-> s, l |-> l, a |-> a]
    /\ UNCHANGED <<out, before, pcall, before2, n>>

FromHsv ==
    /\ color = None
    /\ \E h \in Hues, s \in Fracs, v \in Fracs :
          /\ color' = from_hsv(h, s, v)
          /\ call' = [op |-> "from_hsv", h |-> h, s |-> s, v |-> v]
    /\ UNCHANGED <<out, before, pcall, before2, n>>

FromCmyk ==
    /\ color = None
    /\ \E c \in FewFracs, m \in FewFracs, y \in FewFracs, k \in FewFracs :
          /\ color' = from_cmyk(c, m, y, k)
          /\ call' = [op |-> "from_cmyk", c |-> c, m |-> m, y |-> y, k |-> k]
    /\ UNCHANGED <<out, before, pcall, before2, n>>

NextCtor == FromRgb \/ FromRgba \/ FromHsl \/ FromHsla \/ FromHsv \/ FromCmyk \/ ToHex \/ ToRgb

\* the numeric constructors: one is called, the result is rendered
SpecCtor == Init /\ [][NextCtor]_vars

(***************************************************************************)
(* The transforms, applied to a constructed Color.                         *)
(***************************************************************************)
\* how many transforms a run applies
MaxOps == 2

Ratios == {Lit(0 - 5, 10), Lit(5, 10), Lit(8, 10), Lit(15, 10)}

NewAlphas == {Lit(5, 10), Lit(15, 10)}

StartRgb == {<<0, 0, 0>>, <<255, 0, 170>>, <<16, 76, 136>>}

StartAlphas == {Lit(0, 1), Lit(1, 10), Lit(25, 100), Lit(3, 10), Lit(1, 1)}

\* the Colors a run starts from: from_rgba's, from_hsla's with an alpha outside
\* [0,1], which from_hsla does not check, and from_rgba's with an alpha of three
\* decimals
Starts ==
    { [call |-> [op |-> "from_rgba", r |-> c[1], g |-> c[2], b |-> c[3], a |-> a],
       color |-> from_rgba(c[1], c[2], c[3], a)] : c \in StartRgb, a \in StartAlphas }
    \cup
    { [call |-> [op |-> "from_hsla", h |-> 210, s |-> Lit(79, 100), l |-> Lit(3, 10), a |-> a],
       color |-> from_hsla(210, Lit(79, 100), Lit(3, 10), a)] :
        a \in {Lit(15, 10), Lit(0 - 5, 10)} }
    \cup
    { [call |-> [op |-> "from_rgba", r |-> 0, g |-> 0, b |-> 0, a |-> a],
       color |-> from_rgba(0, 0, 0, a)] : a \in {Lit(123, 1000), Lit(126, 1000)} }

InitOps ==
    /\ \E st \in Starts :
          /\ color = st.color
          /\ call = st.call
    /\ out = NoOut
    /\ before = NoColor
    /\ pcall = NoCall
    /\ before2 = NoColor
    /\ n = 0

Negate ==
    /\ color.ok
    /\ n < MaxOps
    /\ color' = Ok(negate(color.c))
    /\ call' = [op |-> "negate"]
    /\ before' = color.c
    /\ pcall' = call
    /\ before2' = before
    /\ out' = NoOut
    /\ n' = n + 1

Fade ==
    /\ color.ok
    /\ n < MaxOps
    /\ \E ratio \in Ratios :
          /\ color' = Ok(fade(color.c, ratio))
          /\ call' = [op |-> "fade", ratio |-> ratio]
    /\ before' = color.c
    /\ pcall' = call
    /\ before2' = before
    /\ out' = NoOut
    /\ n' = n + 1

Opaquer ==
    /\ color.ok
    /\ n < MaxOps
    /\ \E ratio \in Ratios :
          /\ color' = Ok(opaquer(color.c, ratio))
          /\ call' = [op |-> "opaquer", ratio |-> ratio]
    /\ before' = color.c
    /\ pcall' = call
    /\ before2' = before
    /\ out' = NoOut
    /\ n' = n + 1

SetAlpha ==
    /\ color.ok
    /\ n < MaxOps
    /\ \E alpha \in NewAlphas :
          /\ color' = Ok(set_alpha(color.c, alpha))
          /\ call' = [op |-> "set_alpha", alpha |-> alpha]
    /\ before' = color.c
    /\ pcall' = call
    /\ before2' = before
    /\ out' = NoOut
    /\ n' = n + 1

Next == Negate \/ Fade \/ Opaquer \/ SetAlpha \/ ToHex \/ ToRgb

\* the life of one Color: transforms and renderers in any order
Spec == InitOps /\ [][Next]_vars

(***************************************************************************)
(* The renderers, called on a constructed Color.                           *)
(***************************************************************************)
\* the Colors a renderer is called on: from_rgba's, which builds every Color
\* with an alpha in [0,1], and from_hsla's with an alpha outside [0,1]
ShowStarts ==
    { [call |-> [op |-> "from_rgba", r |-> c[1], g |-> c[2], b |-> c[3], a |-> a],
       color |-> from_rgba(c[1], c[2], c[3], a)] : c \in { <<0, 0, 0>>, <<255, 255, 255>>, <<255, 0, 170>>, <<16, 76, 136>>,
                   <<255, 0, 1>>, <<255, 1, 0>>, <<0, 255, 0>>, <<1, 2, 255>>,
                   <<129, 45, 78>> },
        a \in { FZero(0), FZero(1), Lit(1, 10), Lit(25, 100), Lit(45, 100), Lit(5, 10),
                Lit(67, 100), Lit(1, 1) } }
    \cup
    { [call |-> [op |-> "from_hsla", h |-> h, s |-> Lit(79, 100), l |-> Lit(3, 10), a |-> a],
       color |-> from_hsla(h, Lit(79, 100), Lit(3, 10), a)] :
        h \in {210, 359}, a \in {Lit(15, 10), Lit(0 - 5, 10)} }

InitShow ==
    /\ \E st \in ShowStarts :
          /\ color = st.color
          /\ call = st.call
    /\ out = NoOut
    /\ before = NoColor
    /\ pcall = NoCall
    /\ before2 = NoColor
    /\ n = 0

ToHexAlpha ==
    /\ color.ok
    /\ out' = [op |-> "to_hex_alpha", text |-> to_hex_alpha(color.c)]
    /\ UNCHANGED <<color, call, before, pcall, before2, n>>

ToRgba ==
    /\ color.ok
    /\ out' = [op |-> "to_rgba", text |-> to_rgba(color.c)]
    /\ UNCHANGED <<color, call, before, pcall, before2, n>>

ToHsl ==
    /\ color.ok
    /\ out' = [op |-> "to_hsl", text |-> to_hsl(color.c)]
    /\ UNCHANGED <<color, call, before, pcall, before2, n>>

ToHsla ==
    /\ color.ok
    /\ out' = [op |-> "to_hsla", text |-> to_hsla(color.c)]
    /\ UNCHANGED <<color, call, before, pcall, before2, n>>

ToHsv ==
    /\ color.ok
    /\ out' = [op |-> "to_hsv", text |-> to_hsv(color.c)]
    /\ UNCHANGED <<color, call, before, pcall, before2, n>>

ToCmyk ==
    /\ color.ok
    /\ out' = [op |-> "to_cmyk", text |-> to_cmyk(color.c)]
    /\ UNCHANGED <<color, call, before, pcall, before2, n>>

\* the bool of is_dark, written out
BoolText(v) == IF v THEN <<"t", "r", "u", "e">> ELSE <<"f", "a", "l", "s", "e">>

IsDark ==
    /\ color.ok
    /\ out' = [op |-> "is_dark", text |-> BoolText(is_dark(color.c))]
    /\ UNCHANGED <<color, call, before, pcall, before2, n>>

NextShow ==
    ToHex \/ ToHexAlpha \/ ToRgb \/ ToRgba \/ ToHsl \/ ToHsla \/ ToHsv \/ ToCmyk
        \/ IsDark

\* one Color, rendered in every notation
SpecShow == InitShow /\ [][NextShow]_vars

(***************************************************************************)
(* Claims checked under SpecParse                                          *)
(***************************************************************************)
IsFrom(kind) == call.op = "from" /\ call.in.kind = kind

\* the value of two hexadecimal digits
HexByte(t) == 16 * HexVal(t[1]) + HexVal(t[2])

UpperChar(c) ==
    IF IndexOf(LowerLetters, c) # 0 THEN UpperLetters[IndexOf(LowerLetters, c)] ELSE c

SwapCase(c) ==
    IF IndexOf(LowerLetters, c) # 0 THEN UpperLetters[IndexOf(LowerLetters, c)]
    ELSE IF IndexOf(UpperLetters, c) # 0 THEN LowerLetters[IndexOf(UpperLetters, c)]
    ELSE c

Upper(t) == [i \in 1..Len(t) |-> UpperChar(t[i])]

\* every text got from t by changing the case of some of its letters
RECURSIVE CaseVariants(_)
CaseVariants(t) ==
    IF t = <<>> THEN {<<>>}
    ELSE LET rest == CaseVariants(Tail(t))
         IN  {<<Head(t)>> \o v : v \in rest} \cup {<<SwapCase(Head(t))>> \o v : v \in rest}

\* C1 (as claimed): a text rgba(r,g,b,a) with r, g, b in 0..255 gives what
\* from_rgba(r,g,b,a) gives, a being the fourth token: the colour with alpha a
\* when a is in [0,1], a Value error when it is not.
C1_RgbaTextIsFromRgba ==
    IsFrom("rgba") =>
        color = from_rgba(call.in.toks[1].val, call.in.toks[2].val, call.in.toks[3].val,
                          call.in.atok.val)

\* '#' and 8 hexadecimal digits
IsHexAlphaText(t) == Len(t) = 9 /\ t[1] = "#" /\ \A i \in 2..9 : HexVal(t[i]) >= 0

\* C2 (as claimed): '#' and 8 hexadecimal digits RRGGBBAA give the colour with
\* channels RR, GG, BB and alpha AA / 255, from from_hex_alpha and from Color::from
\* alike; a Format error comes only for a text of another shape.
C2_HexAlphaDecoded ==
    /\ (call.op \in {"from", "from_hex_alpha"} /\ call.in.kind = "alpha") =>
          LET t == call.in.text
          IN  color = Ok(Color(HexByte(SubSeq(t, 2, 3)), HexByte(SubSeq(t, 4, 5)),
                               HexByte(SubSeq(t, 6, 7)),
                               FDiv(FromInt(HexByte(SubSeq(t, 8, 9))), FromInt(255))))
    /\ (call.op = "from_hex_alpha" /\ color = Err("Format")) => ~IsHexAlphaText(call.in.text)

\* C3 (as claimed): an accepted text stays accepted, with the same Color, when
\* the case of any of its letters is changed.
C3_CaseInsensitive ==
    (call.op = "from" /\ color.ok) =>
        \A v \in CaseVariants(call.in.text) : from(v) = color

\* C4: for a text starting with '#', Color::from selects by length alone: 4 or 7
\* is from_hex, 9 is from_hex_alpha, any other length is a Format error; and a
\* character that is no hexadecimal digit in a digit position is a Format error.
C4_HashDispatchByLength ==
    (call.op = "from" /\ StartsWith(call.in.text, <<"#">>)) =>
        LET t   == call.in.text
            len == Len(t)
        IN  /\ len \in {4, 7} => color = from_hex(t)
            /\ len = 9 => color = from_hex_alpha(t)
            /\ len \notin {4, 7, 9} => color = Err("Format")
            /\ (len \in {4, 7, 9} /\ \E i \in 2..len : HexVal(t[i]) < 0)
                  => color = Err("Format")

\* a 9-character '#' text with 'Z' in the alpha position, as the test's "#ff00aaZ0"
C4_Witness ==
    /\ call.op = "from"
    /\ Len(call.in.text) = 9
    /\ call.in.text[1] = "#"
    /\ call.in.text[8] = "Z"
    /\ color = Err("Format")

\* what the numeric constructor returns on an input's tokens
OnTokens(i) ==
    LET v(k) == i.toks[k].val
    IN  CASE i.kind = "hsl"  -> from_hsl(v(1), Lit(v(2), 100), Lit(v(3), 100))
          [] i.kind = "hsv"  -> from_hsv(v(1), Lit(v(2), 100), Lit(v(3), 100))
          [] i.kind = "cmyk" -> from_cmyk(Lit(v(1), 100), Lit(v(2), 100), Lit(v(3), 100),
                                          Lit(v(4), 100))

HasHuge(i) == \E k \in 1..Len(i.toks) : i.toks[k] = HugeTok

IsSpaceNotation == call.op = "from" /\ call.in.kind \in {"hsl", "hsv", "cmyk"}

Doubled(t) == <<"#", t[2], t[2], t[3], t[3], t[4], t[4]>>

IsHexText == call.op \in {"from", "from_hex"} /\ call.in.kind \in {"short", "long"}

\* C8: "#XYZ" parses as "#XXYYZZ" does, to the opaque colour with channels 17*X,
\* 17*Y, 17*Z; and to_hex of a parsed 6-digit text is the text in upper case.
C8_ShortHexDoubles ==
    /\ (IsHexText /\ call.in.kind = "short") =>
          LET t == call.in.text
          IN  /\ color = from(Doubled(t))
              /\ color = Ok(Color(17 * HexVal(t[2]), 17 * HexVal(t[3]), 17 * HexVal(t[4]),
                                  FromInt(1)))
    /\ (IsHexText /\ out.op = "to_hex") =>
          out.text = Upper(IF call.in.kind = "short" THEN Doubled(call.in.text)
                           ELSE call.in.text)

\* from("#f0a").to_hex() is "#FF00AA"
C8_Witness ==
    /\ call.op = "from"
    /\ call.in.text = <<"#", "f", "0", "a">>
    /\ color.ok /\ color.c.b = 170
    /\ out = [op |-> "to_hex", text |-> <<"#", "F", "F", "0", "0", "A", "A">>]
(***************************************************************************)
(* Claims checked under SpecCtor                                           *)
(***************************************************************************)
Zero == FromInt(0)

One == FromInt(1)

\* x < 0 or 1 < x
Outside01(x) == FLt(x, Zero) \/ FLt(One, x)

\* the result is a Value error exactly when bad holds, and a Color otherwise
ValueErrorIff(bad) == IF bad THEN color = Err("Value") ELSE color.ok

\* C5: each numeric constructor returns a Value error exactly under its range
\* rule: from_hsl and from_hsv iff h is outside [0,360) or s, l/v outside [0,1];
\* from_cmyk iff a component is outside [0,1]; from_rgba iff a is outside [0,1];
\* from_rgb never; from_hsla exactly when from_hsl does, its alpha stored unchecked.
C5_ValueErrors ==
    /\ call.op = "from_rgb" => color = Ok(Color(call.r, call.g, call.b, One))
    /\ call.op = "from_rgba" =>
          /\ ValueErrorIff(Outside01(call.a))
          /\ color.ok => color.c = Color(call.r, call.g, call.b, call.a)
    /\ call.op = "from_hsl" =>
          ValueErrorIff(call.h >= 360 \/ Outside01(call.s) \/ Outside01(call.l))
    /\ call.op = "from_hsv" =>
          ValueErrorIff(call.h >= 360 \/ Outside01(call.s) \/ Outside01(call.v))
    /\ call.op = "from_cmyk" =>
          ValueErrorIff(Outside01(call.c) \/ Outside01(call.m) \/ Outside01(call.y)
                            \/ Outside01(call.k))
    /\ call.op = "from_hsla" =>
          /\ ValueErrorIff(call.h >= 360 \/ Outside01(call.s) \/ Outside01(call.l))
          /\ color.ok => color.c.a = call.a

\* from_hsla keeps an alpha of 1.5
C5_Witness ==
    /\ call.op = "from_hsla"
    /\ color.ok
    /\ color.c.a = Lit(15, 10)

(***************************************************************************)
(* Claims checked under Spec                                               *)
(***************************************************************************)
\* channel * alpha + 255 * (1 - alpha), truncated to a byte
Flatten(v, a) ==
    AsU8(FAdd(FMul(FromInt(v), a), FMul(FromInt(255), FSub(One, a))))

HexDigits16 == <<"0", "1", "2", "3", "4", "5", "6", "7", "8", "9",
                 "A", "B", "C", "D", "E", "F">>

HexPair(v) == <<HexDigits16[(v \div 16) + 1], HexDigits16[(v % 16) + 1]>>

HexOf(r, g, b) == <<"#">> \o HexPair(r) \o HexPair(g) \o HexPair(b)

RgbOf(r, g, b) ==
    <<"r", "g", "b", "(">> \o Dec(r) \o <<",">> \o Dec(g) \o <<",">> \o Dec(b) \o <<")">>

ShownAs(r, g, b) ==
    /\ out.op = "to_hex" => out.text = HexOf(r, g, b)
    /\ out.op = "to_rgb" => out.text = RgbOf(r, g, b)

\* C7: with alpha in [0,1], to_hex and to_rgb show, for each channel, the byte
\* channel*alpha + 255*(1-alpha) truncated, to_hex as two upper-case digits: the
\* stored channels at alpha 1, white at alpha 0, the same bytes in both.
C7_RenderFlattened ==
    (color.ok /\ out.op \in {"to_hex", "to_rgb"} /\ ~Outside01(color.c.a)) =>
        LET c == color.c
        IN  /\ ShownAs(Flatten(c.r, c.a), Flatten(c.g, c.a), Flatten(c.b, c.a))
            /\ c.a = One => ShownAs(c.r, c.g, c.b)
            /\ FEq(c.a, Zero) => ShownAs(255, 255, 255)

\* #ff00aa at alpha 0.5 is shown as #FF7FD4
C7_Witness ==
    /\ color.ok
    /\ color.c = Color(255, 0, 170, Lit(5, 10))
    /\ out = [op |-> "to_hex", text |-> <<"#", "F", "F", "7", "F", "D", "4">>]

SameRgb(c, d) == c.r = d.r /\ c.g = d.g /\ c.b = d.b

\* one negate: each channel is 255 - channel, alpha is 1 - alpha
NegateOnce ==
    call.op = "negate" =>
        color = Ok(Color(255 - before.r, 255 - before.g, 255 - before.b,
                         FSub(One, before.a)))

NegatedTwice == call.op = "negate" /\ pcall.op = "negate"

\* C9 (as claimed): negate twice restores red, green and blue, and restores an
\* alpha that was within [0,1]; one negate sets 255 - channel and 1 - alpha.
C9_NegateTwiceRestores ==
    /\ NegateOnce
    /\ NegatedTwice =>
          /\ SameRgb(color.c, before2)
          /\ ~Outside01(before2.a) => color.c.a = before2.a

\* x is a whole multiple of 2^-24
OnGrid24(x) ==
    \/ x.m = 0
    \/ x.e >= 0 - 24
    \/ (x.e >= 0 - 47 /\ x.m % 2^(0 - 24 - x.e) = 0)

\* 2^-25
HalfUlp == F32(0, P23, 0 - 48)

\* C9 (amended): negate twice restores red, green and blue; it restores an alpha
\* within [0,1] exactly when that alpha is a whole multiple of 2^-24 (every alpha
\* in [0.5,1] is), and otherwise returns the multiple of 2^-24 nearest to it,
\* within 2^-25 of it.
C9_NegateTwiceRestoresOnGrid ==
    /\ NegateOnce
    /\ NegatedTwice =>
          /\ SameRgb(color.c, before2)
          /\ ~Outside01(before2.a) =>
                /\ (color.c.a = before2.a) <=> OnGrid24(before2.a)
                /\ OnGrid24(color.c.a)
                /\ FLe(FAbs(FSub(color.c.a, before2.a)), HalfUlp)
                /\ FLe(Lit(5, 10), before2.a) => color.c.a = before2.a

\* alpha 0.25 comes back from two negates
C9_Witness ==
    /\ NegatedTwice
    /\ before2.a = Lit(25, 100)
    /\ color.c = before2
    /\ before.a = Lit(75, 100)

\* x is the f32 of a two-decimal literal 0.00 .. 1.00: of k/100, for the k nearest
\* to 100 * x
IsHundredth(x) ==
    \E k \in {AsU32(FRound(FMul(x, FromInt(100))))} : k <= 100 /\ x = Lit(k, 100)

IsFade(ratio) == [op |-> "fade", ratio |-> ratio]

\* C10: fade(ratio) takes a ratio above 1 as 1 and a ratio below 0 as 0, sets
\* alpha to (alpha - alpha*ratio) rounded to two decimals and leaves red, green
\* and blue alone; fade(0.5) twice from alpha 1.0 gives 0.5, then 0.25.
C10_FadeRoundsAlpha ==
    /\ call.op = "fade" =>
          LET a   == before.a
              r   == call.ratio
              eff == IF FLt(One, r) THEN One ELSE IF FLt(r, Zero) THEN Zero ELSE r
          IN  /\ color.ok
              /\ color.c.a = FDiv(FRound(FMul(FSub(a, FMul(a, eff)), FromInt(100))),
                                  FromInt(100))
              /\ SameRgb(color.c, before)
              /\ ~Outside01(a) => IsHundredth(color.c.a)
              /\ FLt(One, r) => FEq(color.c.a, Zero)
              /\ (FLt(r, Zero) /\ IsHundredth(a)) => color.c.a = a
    /\ (call = IsFade(Lit(5, 10)) /\ pcall = IsFade(Lit(5, 10)) /\ before2.a = One) =>
          /\ before.a = Lit(5, 10)
          /\ color.c.a = Lit(25, 100)

\* alpha 1.0, fade(0.5), fade(0.5): alpha 0.25
C10_Witness ==
    /\ call = IsFade(Lit(5, 10))
    /\ pcall = IsFade(Lit(5, 10))
    /\ before2.a = One
    /\ color.ok
    /\ color.c.a = Lit(25, 100)

IsOpaquer(ratio) == [op |-> "opaquer", ratio |-> ratio]

\* C11: opaquer(ratio) takes a ratio above 1 as 1 and a ratio below 0 as 0, sets
\* alpha to min(alpha + alpha*ratio, 1.0) rounded to two decimals and leaves red,
\* green and blue alone; opaquer(0.5) twice from alpha 0.3 gives 0.45, then 0.67.
C11_OpaquerRoundsAlpha ==
    /\ call.op = "opaquer" =>
          LET a      == before.a
              r      == call.ratio
              eff    == IF FLt(One, r) THEN One ELSE IF FLt(r, Zero) THEN Zero ELSE r
              raised == FAdd(a, FMul(a, eff))
              capped == IF FLt(One, raised) THEN One ELSE raised
          IN  /\ color.ok
              /\ color.c.a = FDiv(FRound(FMul(capped, FromInt(100))), FromInt(100))
              /\ SameRgb(color.c, before)
              /\ FLe(color.c.a, One)
              /\ ~Outside01(a) => IsHundredth(color.c.a)
              /\ (FLt(r, Zero) /\ IsHundredth(a)) => color.c.a = a
    /\ (call = IsOpaquer(Lit(5, 10)) /\ pcall = IsOpaquer(Lit(5, 10))
            /\ before2.a = Lit(3, 10)) =>
          /\ before.a = Lit(45, 100)
          /\ color.c.a = Lit(67, 100)

\* alpha 0.3, opaquer(0.5), opaquer(0.5): alpha 0.67
C11_Witness ==
    /\ call = IsOpaquer(Lit(5, 10))
    /\ pcall = IsOpaquer(Lit(5, 10))
    /\ before2.a = Lit(3, 10)
    /\ color.ok
    /\ color.c.a = Lit(67, 100)

(***************************************************************************)
(* Claims checked under SpecShow                                           *)
(***************************************************************************)
\* what the renderer named op returns for c
RenderAs(op, c) ==
    CASE op = "to_hsl"   -> to_hsl(c)
      [] op = "to_hsv"   -> to_hsv(c)
      [] op = "to_cmyk"  -> to_cmyk(c)
      [] op = "is_dark"  -> BoolText(is_dark(c))

\* a space renderer has been called on a Color with alpha in [0,1]
SpaceRendered ==
    /\ color.ok
    /\ ~Outside01(color.c.a)
    /\ out.op \in {"to_hsl", "to_hsv", "to_cmyk", "is_dark"}

\* C12 (as claimed): for a Color c with alpha in [0,1], to_hsl, to_hsv, to_cmyk
\* and is_dark return what they return for from(c.to_rgb()), the opaque colour
\* of c's flattened bytes.
C12_SpaceRenderersUseFlattenedBytes ==
    SpaceRendered =>
        LET f == from(to_rgb(color.c))
        IN  f.ok /\ out.text = RenderAs(out.op, f.c)

\* the f32 x is a whole number
IsWhole(x) == x.m = 0 \/ x.e >= 0 \/ x.m % 2^(0 - x.e) = 0

\* channel*alpha + 255*(1-alpha), in f32 and not truncated
Mixed(v, a) == FAdd(FMul(FromInt(v), a), FMul(FromInt(255), FSub(One, a)))

WholeMix(c) == IsWhole(Mixed(c.r, c.a)) /\ IsWhole(Mixed(c.g, c.a)) /\ IsWhole(Mixed(c.b, c.a))

HalfBlack == Color(0, 0, 0, Lit(5, 10))

\* C12 (amended): to_hsl, to_hsv, to_cmyk and is_dark work on the flattened
\* values before they are truncated; they return what they return for
\* from(c.to_rgb()) whenever the three flattened values are whole numbers, as
\* at alpha 0 and alpha 1, and can differ otherwise: black at alpha 0.5 is not
\* dark, the rgb(127,127,127) it shows is.
C12_SpaceRenderersUseMixedValues ==
    /\ (SpaceRendered /\ WholeMix(color.c)) =>
          LET f == from(to_rgb(color.c))
          IN  f.ok /\ out.text = RenderAs(out.op, f.c)
    /\ (color = Ok(HalfBlack) /\ out.op = "is_dark") =>
          /\ out.text = BoolText(FALSE)
          /\ to_rgb(color.c) = RgbOf(127, 127, 127)
          /\ is_dark(from(to_rgb(color.c)).c)

\* a coloured Color at alpha 0 is rendered as white
C12_Witness ==
    /\ color = Ok(Color(16, 76, 136, Zero))
    /\ out = [op |-> "to_cmyk",
              text |-> <<"c", "m", "y", "k", "(", "0", ",", "0", ",", "0", ",", "0", ")">>]

\* the first field of a rendered notation: the characters between '(' and ','
FirstField(t) == SubSeq(t, IndexOf(t, "(") + 1, IndexOf(t, ",") - 1)

\* C13 (as claimed): the hue printed by to_hsl, to_hsla and to_hsv is an integer
\* in [0,360), never 360 and never negative, and is 0 when the three channels
\* are equal.
C13_HueBelow360 ==
    (color.ok /\ out.op \in {"to_hsl", "to_hsla", "to_hsv"}) =>
        LET h == FirstField(out.text)
        IN  /\ AllDigits(h)
            /\ ParseU32(h) >= 0
            /\ ParseU32(h) < 360
            /\ (color.c.r = color.c.g /\ color.c.g = color.c.b) => h = <<"0">>

(***************************************************************************)
(* Claims checked under SpecCtor: the space conversions                    *)
(***************************************************************************)
\* (p_r, p_g, p_b) for the 60-degree sector of h, h in [0,360)
Primaries(h, c, x) ==
    << <<c, x, Zero>>, <<x, c, Zero>>, <<Zero, c, x>>,
       <<Zero, x, c>>, <<x, Zero, c>>, <<c, Zero, x>> >>[(h \div 60) + 1]

\* c * (1 - |((h/60) mod 2) - 1|)
Secondary(h, c) ==
    FMul(c, FSub(One, FAbs(FSub(FRem(FDiv(FromInt(h), FromInt(60)), FromInt(2)), One))))

\* trunc(255 * (p + m))
Trunc255(p, m) == AsU8(FMul(FromInt(255), FAdd(p, m)))

\* the opaque colour with channels trunc(255 * (p + m)) for chroma c, offset m
Converted(h, c, m) ==
    LET p == Primaries(h, c, Secondary(h, c))
    IN  Color(Trunc255(p[1], m), Trunc255(p[2], m), Trunc255(p[3], m), One)

Hex104C88 == <<"#", "1", "0", "4", "C", "8", "8">>

IsHsl21079 ==
    call = [op |-> "from_hsl", h |-> 210, s |-> Lit(79, 100), l |-> Lit(3, 10)]

\* C14: for valid (h,s,l) from_hsl returns the opaque colour with channels
\* trunc(255*(p+m)), c = (1-|2l-1|)*s, x = c*(1-|((h/60) mod 2)-1|), m = l - c/2,
\* p by the 60-degree sector of h; from_hsv the same with c = v*s, m = v - c;
\* truncated, not rounded: from_hsl(210,0.79,0.30) and from_rgb(16,76,136) both
\* render as "#104C88".
C14_SpaceConversions ==
    /\ (call.op = "from_hsl" /\ color.ok) =>
          LET c == FMul(FSub(One, FAbs(FSub(FMul(FromInt(2), call.l), One))), call.s)
          IN  color.c = Converted(call.h, c, FSub(call.l, FDiv(c, FromInt(2))))
    /\ (call.op = "from_hsv" /\ color.ok) =>
          LET c == FMul(call.v, call.s)
          IN  color.c = Converted(call.h, c, FSub(call.v, c))
    /\ IsHsl21079 =>
          /\ color = Ok(Color(16, 76, 136, One))
          /\ out.op = "to_hex" => out.text = Hex104C88
    /\ (call = [op |-> "from_rgb", r |-> 16, g |-> 76, b |-> 136] /\ out.op = "to_hex") =>
          out.text = Hex104C88

\* from_hsl(210, 0.79, 0.30) rendered as #104C88: 76.5 and 136.9 cut to 76 and 136
C14_Witness ==
    /\ IsHsl21079
    /\ color.ok
    /\ color.c.g = 76
    /\ color.c.b = 136
    /\ out = [op |-> "to_hex", text |-> Hex104C88]

(***************************************************************************)
(* Claims checked under Spec: the alpha under the transforms               *)
(***************************************************************************)
\* negate, fade or opaquer was applied to a Color with alpha in [0,1]
Adjusted(ops) == call.op \in ops /\ ~Outside01(before.a)

\* C15 (as claimed): from an alpha in [0,1], negate, fade and opaquer keep the
\* alpha in [0,1]; fade never increases it, opaquer never decreases it, and an
\* alpha of 0 stays 0 under fade and opaquer.
C15_AlphaStaysInRange ==
    /\ Adjusted({"negate", "fade", "opaquer"}) => (color.ok /\ ~Outside01(color.c.a))
    /\ Adjusted({"fade"}) => FLe(color.c.a, before.a)
    /\ Adjusted({"opaquer"}) => FLe(before.a, color.c.a)
    /\ (Adjusted({"fade", "opaquer"}) /\ FEq(before.a, Zero)) => FEq(color.c.a, Zero)

\* x to two decimals
Hundredths(x) == FDiv(FRound(FMul(x, FromInt(100))), FromInt(100))

\* C15 (amended): from an alpha in [0,1], negate, fade and opaquer keep the
\* alpha in [0,1]; fade never leaves it above, and opaquer never below, the old
\* alpha rounded to two decimals, so neither moves an alpha of two decimals the
\* wrong way; and an alpha of 0 stays 0 under fade and opaquer.
C15_AlphaStaysInRangeRounded ==
    /\ Adjusted({"negate", "fade", "opaquer"}) => (color.ok /\ ~Outside01(color.c.a))
    /\ Adjusted({"fade"}) =>
          /\ FLe(color.c.a, Hundredths(before.a))
          /\ IsHundredth(before.a) => FLe(color.c.a, before.a)
    /\ Adjusted({"opaquer"}) =>
          /\ FLe(Hundredths(before.a), color.c.a)
          /\ IsHundredth(before.a) => FLe(before.a, color.c.a)
    /\ (Adjusted({"fade", "opaquer"}) /\ FEq(before.a, Zero)) => FEq(color.c.a, Zero)

\* fade with a ratio below 0 on alpha 0.126 gives 0.13
C15_Witness ==
    /\ call.op = "fade"
    /\ FLt(call.ratio, Zero)
    /\ before.a = Lit(126, 1000)
    /\ color.ok
    /\ color.c.a = Lit(13, 100)

(***************************************************************************)
(* Claims checked under SpecShow: the rendered texts, read back            *)
(***************************************************************************)
TextRenderers ==
    {"to_hex", "to_hex_alpha", "to_rgb", "to_rgba", "to_hsl", "to_hsla", "to_hsv", "to_cmyk"}

\* C16 (as claimed): for a Color c with alpha in [0,1], every text that to_hex,
\* to_hex_alpha, to_rgb, to_rgba, to_hsl, to_hsla, to_hsv and to_cmyk return is
\* accepted by Color::from, and from(c.to_hex_alpha()) and from(c.to_rgba())
\* have the red, green and blue of c.
C16_RenderedTextsParse ==
    (color.ok /\ ~Outside01(color.c.a) /\ out.op \in TextRenderers) =>
        LET back == from(out.text)
        IN  /\ back.ok
            /\ out.op \in {"to_hex_alpha", "to_rgba"} => SameRgb(back.c, color.c)
====
